---- MODULE Spec2Model ----
(***************************************************************************)
(* A model of the rule-driven state machine / tokenizer of this            *)
(* repository: the StateMachineBuilder, the StateMachine run loop          *)
(* (process / next), the Context, the array stream of util.js and the      *)
(* tokenizer's action vocabulary (accept, state, emit, error, push, pop,   *)
(* call, ret).                                                             *)
(*                                                                         *)
(* Input items are one-character strings; the buffer and token values are  *)
(* sequences of such items (string concatenation is sequence append).      *)
(***************************************************************************)
EXTENDS Integers, Sequences, FiniteSets, TLC

VARIABLES
    machine,      \* the StateMachine returned by build(): defaultState, states
    alphabet,     \* the characters the inputs of this machine are drawn from
    pc,           \* "built": process() not yet called; "running": a run exists
    context,      \* the Context object of the run
    inputStream,  \* the stream streamify() made of the input
    reads,        \* observer: number of inputStream.next() calls so far
    log,          \* observer: one record per executed action list
    outputs,      \* observer: what each call of next() returned or threw
    builder,      \* the StateMachineBuilder: states, currentState, defaultState
    history,      \* observer: the calls made on the builder or on the
                  \* TokenEmitter, in order
    other,        \* a second run of the same machine over the same input
    handlers      \* the TokenEmitter: the evaluators registered for each type

vars == <<machine, alphabet, pc, context, inputStream, reads, log, outputs,
          builder, history, other, handlers>>

\* ------------------------------------------------------------------ bounds
\* longest input
MaxLen == 4
\* most calls of next() on one run
MaxPulls == 8
\* most calls made on a builder that is followed call by call
MaxCalls == 4
\* most calls of next() on a run of a machine whose builder is followed
MaxBuiltPulls == 1
\* longest input, and most calls of next() on each run, of two runs side by side
MaxLenTwo == 3
MaxPullsTwo == 4
\* longest input of the Readme's tokenizer example
MaxLenReadme == 5
\* longest input drawn for the Readme's improved tokenizer
MaxLenImproved == 4
\* longest input of the tokenizer with a TokenEmitter
MaxLenEmitter == 4
\* most calls of on() on the TokenEmitter
MaxRegistrations == 2

\* JavaScript's undefined: the end-of-stream signal and the initial currentItem
Undefined == "undefined"

\* --------------------------------------------------------- character classes
\* the characters /[A-Z]/i matches, among those the inputs use
Letters == {"a", "b", "c", "q", "x", "y", "r"}
\* the characters /\s/ matches
Spaces == {" "}
\* the characters /["']/ matches
Quotes == {"'", "\""}

\* ------------------------------------------------------------------ actions
\* An action is a function of the context; the model keeps its constructor
\* and argument and ExecAction applies it.
accept == [op |-> "accept", arg |-> ""]
state(name) == [op |-> "state", arg |-> name]
emit(type) == [op |-> "emit", arg |-> type]
\* the action new TokenEmitter()...emitter()(type)
emitter(type) == [op |-> "emitter", arg |-> type]
error(msg) == [op |-> "error", arg |-> msg]
push == [op |-> "push", arg |-> ""]
call(name) == [op |-> "call", arg |-> name]
ret == [op |-> "ret", arg |-> ""]
\* a value that is not a function, passed where an action is expected
\* (Readme's .onEnd("Incomplete escape sequence"))
notAFunction(v) == [op |-> "notAFunction", arg |-> v]

\* ----------------------------------------------------------------- matchers
\* The values handed to .on(): a literal, a RegExp, or a matcher function.
Lit(c) == [kind |-> "literal", arg |-> c]
Re(pattern) == [kind |-> "regexp", arg |-> pattern]
pop == [kind |-> "function", arg |-> "pop"]

\* Tokenizer's matcher wrapper: a function is kept, a RegExp becomes a match
\* test, anything else a strict-equality test.
matcherWrapper(m) ==
    IF m.kind = "function" THEN m
    ELSE IF m.kind = "regexp" THEN [kind |-> "match", arg |-> m.arg]
    ELSE [kind |-> "equals", arg |-> m.arg]

\* !!item.match(re) for a one-character item
RegExpMatch(pattern, item) ==
    CASE pattern = "[A-Z]/i" -> item \in Letters
      [] pattern = "\\s"     -> item \in Spaces
      [] pattern = "[\"']"   -> item \in Quotes
      [] OTHER               -> FALSE

\* ------------------------------------------------------------------ builder
NewBuilder ==
    [states |-> <<>>, currentState |-> Undefined, defaultState |-> Undefined]

NewState(name) ==
    [name |-> name, matchers |-> <<>>, defaultActions |-> <<>>, endActions |-> <<>>]

\* !v for the values a state name or this.defaultState can hold: undefined and
\* the empty string are falsy
Falsy(v) == v \in {Undefined, ""}

\* a .state(name) that always starts the state afresh
Builder_state_fresh(b, name) ==
    [states       |-> (name :> NewState(name)) @@ b.states,
     currentState |-> name,
     defaultState |-> IF Falsy(b.defaultState) THEN name ELSE b.defaultState]

\* .state(name): open the state, creating it when new; the name becomes the
\* default state if (!this.defaultState)
Builder_state(b, name) ==
    LET states1 == IF name \in DOMAIN b.states
                   THEN b.states
                   ELSE (name :> NewState(name)) @@ b.states
    IN [states       |-> states1,
        currentState |-> name,
        defaultState |-> IF Falsy(b.defaultState) THEN name ELSE b.defaultState]

\* .on(matcher, ...actions): append a rule to the open state
Builder_on(b, matcher, actions) ==
    [b EXCEPT !.states[b.currentState].matchers =
        Append(@, [matcher |-> matcherWrapper(matcher), actions |-> actions])]

\* .onEnd(...actions): set the open state's end-of-input actions
Builder_onEnd(b, actions) ==
    [b EXCEPT !.states[b.currentState].endActions = actions]

\* an .else that adds its actions to the fallback already set
Builder_else_appending(b, actions) ==
    [b EXCEPT !.states[b.currentState].defaultActions = @ \o actions]

\* .else(...actions): set the open state's fallback actions
Builder_else(b, actions) ==
    [b EXCEPT !.states[b.currentState].defaultActions = actions]

\* .build()
Builder_build(b) == [defaultState |-> b.defaultState, states |-> b.states]

\* A fluent chain is written as the sequence of its calls.
NoMatcher == [kind |-> "none", arg |-> ""]
S(name) == [m |-> "state", name |-> name, matcher |-> NoMatcher, actions |-> <<>>]
On(matcher, actions) == [m |-> "on", name |-> "", matcher |-> matcher, actions |-> actions]
OnEnd(actions) == [m |-> "onEnd", name |-> "", matcher |-> NoMatcher, actions |-> actions]
Else(actions) == [m |-> "else", name |-> "", matcher |-> NoMatcher, actions |-> actions]
Build == [m |-> "build", name |-> "", matcher |-> NoMatcher, actions |-> <<>>]

\* the builder after the call (build() leaves it as it is)
ApplyCall(b, c) ==
    CASE c.m = "state" -> Builder_state(b, c.name)
      [] c.m = "on"    -> Builder_on(b, c.matcher, c.actions)
      [] c.m = "onEnd" -> Builder_onEnd(b, c.actions)
      [] c.m = "else"  -> Builder_else(b, c.actions)
      [] c.m = "build" -> b

\* A rule call made before any .state() fails (this.currentState is
\* undefined): the chain goes no further.
RECURSIVE Chain(_, _)
Chain(b, calls) ==
    IF calls = <<>> THEN b
    ELSE IF Head(calls).m # "state" /\ b.currentState = Undefined THEN b
    ELSE Chain(ApplyCall(b, Head(calls)), Tail(calls))

\* Tokenizer().<calls>.build()
Tokenizer(calls) == Builder_build(Chain(NewBuilder, calls))

\* ------------------------------------------------------------------ context
NoError == [name |-> "", message |-> "", position |-> -1, item |-> ""]

\* new Context(initialState), followed by the Tokenizer's context initializer
\* (ctx.buffer = ""). charstack and callstack do not exist until first used.
Context(initialState) ==
    [state           |-> initialState,
     currentItem     |-> Undefined,
     currentPosition |-> -1,
     tokens          |-> <<>>,
     finished        |-> FALSE,
     buffer          |-> <<>>,
     hasCharstack    |-> FALSE,
     charstack       |-> <<>>,
     hasCallstack    |-> FALSE,
     callstack       |-> <<>>]

\* a changeState that ignores a name the machine does not declare
changeState_declaredOnly(ctx, name) ==
    IF name \in DOMAIN machine.states THEN [ctx EXCEPT !.state = name] ELSE ctx

\* Context.changeState
changeState(ctx, name) == [ctx EXCEPT !.state = name]

\* Context.emit
Context_emit(ctx, token) == [ctx EXCEPT !.tokens = Append(@, token)]

\* ------------------------------------------------- the actions' closures
Ok(ctx) == [ctx |-> ctx, err |-> NoError]
Throw(ctx, e) == [ctx |-> ctx, err |-> e]

\* an accept that buffers nothing
do_accept_skipped(ctx) == ctx

\* accept(): ctx.buffer += ctx.currentItem
do_accept(ctx) == [ctx EXCEPT !.buffer = Append(@, ctx.currentItem)]

\* state(name): ctx.changeState(name)
do_state(ctx, name) == changeState(ctx, name)

\* an emit that puts its token at the head of the queue
do_emit_atHead(ctx, type) ==
    [ctx EXCEPT !.tokens = <<[type |-> type, value |-> ctx.buffer]>> \o @,
                !.buffer = <<>>]

\* an emit that keeps the buffer
do_emit_keepsBuffer(ctx, type) ==
    Context_emit(ctx, [type |-> type, value |-> ctx.buffer])

\* emit(type): ctx.emit({type, value: ctx.buffer}); ctx.buffer = ""
do_emit(ctx, type) ==
    [Context_emit(ctx, [type |-> type, value |-> ctx.buffer]) EXCEPT !.buffer = <<>>]

\* ------------------------------------------------------------ TokenEmitter
\* constructor: this.handlers = {}
NoHandlers == [t \in {} |-> <<>>]

RECURSIVE Reverse(_)
Reverse(v) == IF v = <<>> THEN <<>> ELSE Append(Reverse(Tail(v)), Head(v))

\* The evaluators are the caller's functions from a value to a value. Two of
\* them stand for all: v => v.slice(1) and v => [...v].reverse().join("").
Evaluate(evaluator, value) ==
    CASE evaluator = "rest"    -> IF value = <<>> THEN <<>> ELSE Tail(value)
      [] evaluator = "reverse" -> Reverse(value)

\* on(type, ...evaluators) that adds the evaluators to those the type has
TokenEmitter_on_appending(h, type, evaluators) ==
    [t \in DOMAIN h \cup {type} |->
        IF t # type THEN h[t]
        ELSE IF type \in DOMAIN h THEN h[type] \o evaluators ELSE evaluators]

\* on(type, ...evaluators): this.handlers[type] = evaluators
TokenEmitter_on(h, type, evaluators) ==
    [t \in DOMAIN h \cup {type} |-> IF t = type THEN evaluators ELSE h[t]]

\* for (let evaluator of evaluators) value = evaluator(value)
RECURSIVE EvaluateAll(_, _)
EvaluateAll(evaluators, value) ==
    IF evaluators = <<>> THEN value
    ELSE EvaluateAll(Tail(evaluators), Evaluate(Head(evaluators), value))

\* The closure emitter() returns for a type: this.handlers[type] is read when
\* the action runs; a type with no entry keeps the buffer as the value.
do_emitter(ctx, type) ==
    LET value == IF type \in DOMAIN handlers
                 THEN EvaluateAll(handlers[type], ctx.buffer)
                 ELSE ctx.buffer
    IN [Context_emit(ctx, [type |-> type, value |-> value]) EXCEPT !.buffer = <<>>]

\* an error that reports the position of the last item read before the current one
do_error_previousPosition(ctx, msg) ==
    [name |-> "Error", message |-> msg,
     position |-> ctx.currentPosition - 1, item |-> ctx.currentItem]

\* error(msg): throw new Error(`${msg} at position ${currentPosition} ('${currentItem}')`)
\* The record keeps the three parts of the message apart.
do_error(ctx, msg) ==
    [name |-> "Error", message |-> msg,
     position |-> ctx.currentPosition, item |-> ctx.currentItem]

\* push(): create the charstack when missing, push the current item
do_push(ctx) ==
    [ctx EXCEPT !.hasCharstack = TRUE, !.charstack = Append(@, ctx.currentItem)]

\* call(name): create the callstack when missing, push ctx.state, changeState
do_call(ctx, name) ==
    changeState([ctx EXCEPT !.hasCallstack = TRUE, !.callstack = Append(@, ctx.state)],
                name)

\* a ret without the guard: an empty callstack pops undefined and the state
\* becomes undefined
do_ret_unguarded(ctx) ==
    IF ~ctx.hasCallstack \/ Len(ctx.callstack) < 1
    THEN Ok(changeState(ctx, Undefined))
    ELSE Ok(changeState([ctx EXCEPT !.callstack = SubSeq(@, 1, Len(@) - 1)],
                        ctx.callstack[Len(ctx.callstack)]))

\* ret(): throw when the callstack is missing or empty, else pop it and
\* changeState to the popped name. The Error's message names ctx.state (kept
\* in the record's item field) and no position.
do_ret(ctx) ==
    IF ~ctx.hasCallstack \/ Len(ctx.callstack) < 1
    THEN Throw(ctx, [name |-> "Error", message |-> "Can't return from state; callstack empty",
                     position |-> -1, item |-> ctx.state])
    ELSE Ok(changeState([ctx EXCEPT !.callstack = SubSeq(@, 1, Len(@) - 1)],
                        ctx.callstack[Len(ctx.callstack)]))

\* action(context) for one action of a list
ExecAction(a, ctx) ==
    CASE a.op = "accept" -> Ok(do_accept(ctx))
      [] a.op = "state"  -> Ok(do_state(ctx, a.arg))
      [] a.op = "emit"   -> Ok(do_emit(ctx, a.arg))
      [] a.op = "emitter" -> Ok(do_emitter(ctx, a.arg))
      [] a.op = "error"  -> Throw(ctx, do_error(ctx, a.arg))
      [] a.op = "push"   -> Ok(do_push(ctx))
      [] a.op = "call"   -> Ok(do_call(ctx, a.arg))
      [] a.op = "ret"    -> do_ret(ctx)
      [] OTHER           -> Throw(ctx, [name |-> "TypeError", message |-> "action is not a function",
                                        position |-> -1, item |-> ""])

\* for (let action of actions) action(context): stops at the first throw
RECURSIVE RunActions(_, _)
RunActions(actions, ctx) ==
    IF actions = <<>> THEN Ok(ctx)
    ELSE LET r == ExecAction(Head(actions), ctx)
         IN IF r.err # NoError THEN r ELSE RunActions(Tail(actions), r.ctx)

\* ---------------------------------------------------- the matchers' closures
\* a pop that does not compare the current item with the top of the charstack
do_pop_uncompared(ctx) ==
    IF ~ctx.hasCharstack THEN [ctx |-> ctx, result |-> FALSE]
    ELSE IF Len(ctx.charstack) > 0
    THEN [ctx |-> [ctx EXCEPT !.charstack = SubSeq(@, 1, Len(@) - 1)], result |-> TRUE]
    ELSE [ctx |-> ctx, result |-> FALSE]

\* pop(): false without a charstack; true, popping it, when the current item
\* is the top of the charstack; false otherwise
do_pop(ctx) ==
    IF ~ctx.hasCharstack THEN [ctx |-> ctx, result |-> FALSE]
    ELSE IF Len(ctx.charstack) > 0 /\ ctx.currentItem = ctx.charstack[Len(ctx.charstack)]
    THEN [ctx |-> [ctx EXCEPT !.charstack = SubSeq(@, 1, Len(@) - 1)], result |-> TRUE]
    ELSE [ctx |-> ctx, result |-> FALSE]

\* m.matcher(context)
ApplyMatcher(m, ctx) ==
    CASE m.kind = "equals" -> [ctx |-> ctx, result |-> ctx.currentItem = m.arg]
      [] m.kind = "match"  -> [ctx |-> ctx, result |-> RegExpMatch(m.arg, ctx.currentItem)]
      [] OTHER             -> do_pop(ctx)

\* a find that evaluates every matcher of the state before it settles on the
\* first that returned true
Find_allEvaluated(matchers, i, ctx) ==
    LET hits == {j \in i..Len(matchers) : ApplyMatcher(matchers[j].matcher, ctx).result}
    IN [index |-> IF hits = {} THEN 0 ELSE CHOOSE j \in hits : \A h \in hits : j <= h,
        ctx   |-> IF \E j \in hits : matchers[j].matcher = pop THEN do_pop(ctx).ctx ELSE ctx]

\* a find that settles on the last rule whose matcher returns true
Find_lastMatch(matchers, i, ctx) ==
    LET hits == {j \in i..Len(matchers) : ApplyMatcher(matchers[j].matcher, ctx).result}
        last == CHOOSE j \in hits : \A h \in hits : h <= j
    IN IF hits = {} THEN [index |-> 0, ctx |-> ctx]
       ELSE [index |-> last, ctx |-> ApplyMatcher(matchers[last].matcher, ctx).ctx]

\* state.matchers.find(m => m.matcher(context)), scanning from index i:
\* the index of the first rule whose matcher returns true (0: none), and the
\* context as the evaluated matchers left it
RECURSIVE Find(_, _, _)
Find(matchers, i, ctx) ==
    IF i > Len(matchers) THEN [index |-> 0, ctx |-> ctx]
    ELSE LET r == ApplyMatcher(matchers[i].matcher, ctx)
         IN IF r.result THEN [index |-> i, ctx |-> r.ctx]
            ELSE Find(matchers, i + 1, r.ctx)

\* ------------------------------------------------------------------- stream
\* streamify(iterable) for an array or string
streamify(iterable) == [iterable |-> iterable, inputPosition |-> 0]

\* the stream's next(): undefined once the position is past the end
Stream_next(s) ==
    IF s.inputPosition >= Len(s.iterable)
    THEN [item |-> Undefined, stream |-> s]
    ELSE [item |-> s.iterable[s.inputPosition + 1],
          stream |-> [s EXCEPT !.inputPosition = @ + 1]]

\* ---------------------------------------------------------------- run loop
NoToken == [type |-> "", value |-> <<>>]
\* what one call of next() gives its caller
Returned(token) == [kind |-> "token", token |-> token, err |-> NoError]
EndOfSequence == [kind |-> "end", token |-> NoToken, err |-> NoError]
Thrown(e) == [kind |-> "throw", token |-> NoToken, err |-> e]

\* return context.tokens.shift(): undefined on an empty array
Shift(run) ==
    IF Len(run.context.tokens) = 0
    THEN [run EXCEPT !.out = EndOfSequence]
    ELSE [run EXCEPT !.out = Returned(Head(run.context.tokens)),
                     !.context.tokens = Tail(@)]

\* One executed action list, with the record the observer keeps of it: the
\* context after the item was read (pre), after the matchers were evaluated
\* (mid) and after the actions ran (post).
Execute(run, list, index, actions, pre, mid) ==
    LET r == RunActions(actions, mid)
    IN [run EXCEPT
          !.context = r.ctx,
          !.out = IF r.err # NoError THEN Thrown(r.err) ELSE @,
          !.log = Append(@, [pull     |-> run.pull,
                             position |-> pre.currentPosition,
                             item     |-> pre.currentItem,
                             state    |-> pre.state,
                             list     |-> list,
                             index    |-> index,
                             actions  |-> actions,
                             pre      |-> pre,
                             mid      |-> mid,
                             post     |-> r.ctx,
                             err      |-> r.err])]

\* a selection that falls back on the state's first rule
SelectActions_firstRule(st, index) ==
    IF index > 0 THEN st.matchers[index].actions
    ELSE IF Len(st.matchers) > 0 THEN st.matchers[1].actions
    ELSE st.defaultActions

\* the actions chosen for an item: the matching rule's, else the fallback
SelectActions(st, index) ==
    IF index > 0 THEN st.matchers[index].actions ELSE st.defaultActions

\* a read that does not count the read that finds the source exhausted
ReadItem_endNotCounted(run) ==
    LET rd == Stream_next(run.inputStream)
    IN [run EXCEPT !.context.currentItem = rd.item,
                   !.context.currentPosition = IF rd.item = Undefined THEN @ ELSE @ + 1,
                   !.inputStream = rd.stream,
                   !.reads = @ + 1]

\* context.currentItem = inputStream.next(); context.currentPosition++
ReadItem(run) ==
    LET rd == Stream_next(run.inputStream)
    IN [run EXCEPT !.context.currentItem = rd.item,
                   !.context.currentPosition = @ + 1,
                   !.inputStream = rd.stream,
                   !.reads = @ + 1]

\* a run loop that forgets to mark the run finished
MarkFinished_forgotten(run) == run

\* context.finished = true
MarkFinished(run) == [run EXCEPT !.context.finished = TRUE]

\* The do ... while loop of next().
RECURSIVE Loop(_, _)
Loop(sm, run) ==
    LET run1 == ReadItem(run)
        pre  == run1.context
    IN IF pre.state \notin DOMAIN sm.states
       THEN \* this.states[context.state] is undefined: reading its
            \* endActions or matchers throws a TypeError
            [run1 EXCEPT !.out = Thrown([name |-> "TypeError",
                                         message |-> "state is undefined",
                                         position |-> -1, item |-> pre.state])]
       ELSE LET st == sm.states[pre.state]
            IN IF pre.currentItem = Undefined
               THEN LET run2 == Execute(run1, "end", 0, st.endActions, pre, pre)
                    IN IF run2.out.kind = "throw" THEN run2
                       ELSE Shift(MarkFinished(run2))
               ELSE LET f    == Find(st.matchers, 1, pre)
                        run2 == Execute(run1, IF f.index > 0 THEN "rule" ELSE "else",
                                        f.index, SelectActions(st, f.index), pre, f.ctx)
                    IN IF run2.out.kind = "throw" THEN run2
                       ELSE IF Len(run2.context.tokens) = 0 THEN Loop(sm, run2)
                       ELSE Shift(run2)

\* a next() that hands out queued tokens before it looks at finished
next_queueFirst(sm, run) ==
    IF Len(run.context.tokens) > 0 THEN Shift(run)
    ELSE IF run.context.finished THEN [run EXCEPT !.out = EndOfSequence]
    ELSE Loop(sm, run)

\* a next() that never looks at finished
next_finishedIgnored(sm, run) ==
    IF Len(run.context.tokens) > 0 THEN Shift(run)
    ELSE Loop(sm, run)

\* next() of the stream process() returns
next(sm, run) ==
    IF run.context.finished THEN [run EXCEPT !.out = EndOfSequence]
    ELSE IF Len(run.context.tokens) > 0 THEN Shift(run)
    ELSE Loop(sm, run)

\* ------------------------------------------------------------- the machines
\* Readme.md, "Tokenizer Example"
ReadmeTokenizer == Tokenizer(<<
    S("text"),
        On(Lit("["), <<emit("text"), state("color")>>),
        OnEnd(<<emit("text")>>),
        Else(<<accept>>),
    S("color"),
        On(Lit("]"), <<emit("color"), state("text")>>),
        Else(<<accept>>) >>)

\* Readme.md, the improved tokenizer
ImprovedTokenizer == Tokenizer(<<
    S("text"),
        On(Lit("["), <<emit("text"), state("color")>>),
        On(Lit("\\"), <<state("escaped_char")>>),
        OnEnd(<<emit("text")>>),
        Else(<<accept>>),
    S("escaped_char"),
        OnEnd(<<notAFunction("Incomplete escape sequence")>>),
        Else(<<accept, state("text")>>),
    S("color"),
        On(Lit("]"), <<emit("color"), state("text")>>),
        OnEnd(<<error("Unclosed color tag")>>),
        Else(<<accept>>) >>)

\* examples/testsimple.js
SimpleTokenizer == Tokenizer(<<
    S("text"),
        On(Lit("["), <<state("opening_bracket")>>),
        OnEnd(<<emit("text")>>),
        Else(<<accept>>),
    S("opening_bracket"),
        On(Lit("["), <<accept, state("text")>>),
        On(Lit("]"), <<emit("text"), emit("default_color"), state("text")>>),
        OnEnd(<<error("Unclosed color tag")>>),
        Else(<<emit("text"), accept, state("color")>>),
    S("color"),
        On(Lit("]"), <<emit("color"), state("text")>>),
        OnEnd(<<error("Unclosed color tag")>>),
        Else(<<accept>>) >>)

\* examples/testhtml.js, the HTML tokenizer, one definition per .state() block
Html_text == <<
    S("text"),
        On(Lit("<"), <<emit("text"), emit("open_tag"), state("pre_tag_name")>>),
        On(Lit("&"), <<emit("text"), call("entity")>>),
        OnEnd(<<emit("text")>>),
        Else(<<accept>>) >>
Html_pre_tag_name == <<
    S("pre_tag_name"),
        On(Re("[A-Z]/i"), <<accept, state("tag_name")>>),
        On(Lit("/"), <<emit("ending_tag"), state("tag_name")>>),
        On(Re("\\s"), <<>>),
        OnEnd(<<error("Unclosed tag")>>),
        Else(<<error("Bad tag name")>>) >>
Html_tag_name == <<
    S("tag_name"),
        On(Re("[A-Z]/i"), <<accept>>),
        On(Re("\\s"), <<emit("tag_name"), state("pre_attribute_name")>>),
        On(Lit(">"), <<emit("tag_name"), emit("close_tag"), state("text")>>),
        OnEnd(<<error("Unclosed tag")>>),
        Else(<<error("Bad tag name")>>) >>
Html_pre_attribute_name == <<
    S("pre_attribute_name"),
        On(Re("[A-Z]/i"), <<accept, state("attribute_name")>>),
        On(Re("\\s"), <<>>),
        On(Lit(">"), <<emit("close_tag"), state("text")>>),
        On(Lit("/"), <<emit("ending_tag"), state("pre_close_tag")>>),
        OnEnd(<<error("Unclosed tag")>>),
        Else(<<error("Bad attribute name")>>) >>
Html_attribute_name == <<
    S("attribute_name"),
        On(Re("[A-Z]/i"), <<accept>>),
        On(Re("\\s"), <<emit("attribute_name"), state("pre_equals")>>),
        On(Lit("="), <<emit("attribute_name"), state("pre_attribute_value")>>),
        OnEnd(<<error("Unclosed tag")>>),
        Else(<<error("Bad character in tag")>>) >>
Html_pre_equals == <<
    S("pre_equals"),
        On(Lit("="), <<state("pre_attribute_value")>>),
        On(Re("\\s"), <<>>),
        OnEnd(<<error("Unclosed tag")>>),
        Else(<<error("Expected =")>>) >>
Html_pre_attribute_value == <<
    S("pre_attribute_value"),
        On(Re("\\s"), <<>>),
        On(Re("[\"']"), <<push, state("attribute_value")>>),
        OnEnd(<<error("Expected attribute value")>>),
        Else(<<error("Expected attribute value")>>) >>
Html_attribute_value == <<
    S("attribute_value"),
        On(Lit("&"), <<emit("attribute_value"), call("entity")>>),
        On(pop, <<emit("attribute_value"), state("pre_attribute_name")>>),
        OnEnd(<<error("Unclosed attribute value")>>),
        Else(<<accept>>) >>
Html_pre_close_tag == <<
    S("pre_close_tag"),
        On(Lit(">"), <<emit("close_tag"), state("text")>>),
        On(Re("\\s"), <<>>),
        OnEnd(<<error("Unclosed tag")>>),
        Else(<<error("Expected '>'")>>) >>
Html_entity == <<
    S("entity"),
        On(Re("[A-Z]/i"), <<accept>>),
        On(Lit(";"), <<emit("entity"), ret>>),
        OnEnd(<<error("Unfinished HTML entity")>>),
        Else(<<error("Bad character in HTML entity")>>) >>

\* The builder after each block of the chain; HtmlTokenizer is its build().
HtmlBuilder1 == Chain(NewBuilder, Html_text)
HtmlBuilder2 == Chain(HtmlBuilder1, Html_pre_tag_name)
HtmlBuilder3 == Chain(HtmlBuilder2, Html_tag_name)
HtmlBuilder4 == Chain(HtmlBuilder3, Html_pre_attribute_name)
HtmlBuilder5 == Chain(HtmlBuilder4, Html_attribute_name)
HtmlBuilder6 == Chain(HtmlBuilder5, Html_pre_equals)
HtmlBuilder7 == Chain(HtmlBuilder6, Html_pre_attribute_value)
HtmlBuilder8 == Chain(HtmlBuilder7, Html_attribute_value)
HtmlBuilder9 == Chain(HtmlBuilder8, Html_pre_close_tag)
HtmlBuilder10 == Chain(HtmlBuilder9, Html_entity)

HtmlTokenizer == Builder_build(HtmlBuilder10)

\* The same chain entered at the attribute value: pre_attribute_value is
\* opened first (so it is the default state) and reopened by the chain.
HtmlValueBuilder0 == Builder_state(NewBuilder, "pre_attribute_value")
HtmlValueBuilder1 == Chain(HtmlValueBuilder0, Html_text)
HtmlValueBuilder2 == Chain(HtmlValueBuilder1, Html_pre_tag_name)
HtmlValueBuilder3 == Chain(HtmlValueBuilder2, Html_tag_name)
HtmlValueBuilder4 == Chain(HtmlValueBuilder3, Html_pre_attribute_name)
HtmlValueBuilder5 == Chain(HtmlValueBuilder4, Html_attribute_name)
HtmlValueBuilder6 == Chain(HtmlValueBuilder5, Html_pre_equals)
HtmlValueBuilder7 == Chain(HtmlValueBuilder6, Html_pre_attribute_value)
HtmlValueBuilder8 == Chain(HtmlValueBuilder7, Html_attribute_value)
HtmlValueBuilder9 == Chain(HtmlValueBuilder8, Html_pre_close_tag)
HtmlValueBuilder10 == Chain(HtmlValueBuilder9, Html_entity)

HtmlValueTokenizer == Builder_build(HtmlValueBuilder10)

\* Sub-states entered by call and left by ret, two levels deep; "top" returns
\* with nothing to return to, "inner" has no end-of-input rule.
GroupTokenizer == Tokenizer(<<
    S("top"),
        On(Lit("("), <<emit("text"), call("outer")>>),
        On(Lit(")"), <<ret>>),
        OnEnd(<<emit("text")>>),
        Else(<<accept>>),
    S("outer"),
        On(Lit("("), <<call("inner")>>),
        On(Lit(")"), <<emit("outer"), ret>>),
        OnEnd(<<error("Unclosed group")>>),
        Else(<<accept>>),
    S("inner"),
        On(Lit("("), <<call("inner")>>),
        On(Lit(")"), <<emit("inner"), ret>>),
        Else(<<accept>>) >>)

\* A rule that changes state and then calls; an end rule that emits twice; a
\* state without fallback; a transition to a state that was never declared.
DeferredTokenizer == Tokenizer(<<
    S("A"),
        On(Lit("x"), <<state("B"), call("C")>>),
        On(Lit("y"), <<call("C")>>),
        OnEnd(<<emit("a"), emit("b")>>),
    S("B"),
        On(Lit("r"), <<emit("b"), state("nowhere")>>),
        OnEnd(<<accept, emit("b"), emit("end"), emit("last")>>),
        Else(<<accept>>),
    S("C"),
        On(Lit("y"), <<call("D")>>),
        On(Lit("r"), <<ret>>),
    S("D"),
        On(Lit("x"), <<accept, emit("d"), emit("e")>>),
        On(Lit("r"), <<ret>>),
        OnEnd(<<emit("d")>>) >>)

\* Rules of one state that match the same items; a rule without actions; no
\* fallback.
OverlapTokenizer == Tokenizer(<<
    S("s"),
        On(Lit("a"), <<accept, emit("first")>>),
        On(Re("[A-Z]/i"), <<accept, emit("second"), state("t")>>),
        On(Lit("a"), <<emit("third")>>),
        On(Re("\\s"), <<>>),
        OnEnd(<<emit("end")>>),
    S("t"),
        On(Re("[A-Z]/i"), <<accept>>),
        On(Lit("q"), <<emit("q"), state("s")>>),
        On(Re("\\s"), <<emit("word"), state("s")>>) >>)

\* pop evaluated before any push, on an emptied stack, and declared after a
\* rule that matches the same item.
QuoteTokenizer == Tokenizer(<<
    S("out"),
        On(pop, <<emit("stray")>>),
        On(Re("[\"']"), <<emit("text"), push, state("in")>>),
        OnEnd(<<emit("text")>>),
        Else(<<accept>>),
    S("in"),
        On(Lit("a"), <<accept>>),
        On(pop, <<emit("string"), state("out")>>),
        On(Re("[\"']"), <<push, accept>>),
        OnEnd(<<error("Unclosed string")>>),
        Else(<<push>>) >>)

\* Rules that go on after a transition, or a call, to a state that is never
\* declared.
MissingTokenizer == Tokenizer(<<
    S("s"),
        On(Lit("a"), <<accept, state("ghost"), emit("one"), accept, emit("two")>>),
        On(Lit("q"), <<call("phantom"), accept, emit("one")>>),
        On(Lit("1"), <<state("ghost")>>),
        OnEnd(<<emit("text")>>),
        Else(<<accept>>) >>)

\* A pop rule declared after a rule that matches an item the stack can hold.
ShadowTokenizer == Tokenizer(<<
    S("s"),
        On(Lit("a"), <<accept, push>>),
        On(pop, <<emit("pair")>>),
        OnEnd(<<emit("rest")>>),
        Else(<<push>>) >>)

MachineNames == {"readme", "improved", "simple", "html", "htmlvalue",
                 "group", "deferred", "overlap", "quote", "missing",
                 "shadow"}

MachineOf(name) ==
    CASE name = "readme"    -> ReadmeTokenizer
      [] name = "improved"  -> ImprovedTokenizer
      [] name = "simple"    -> SimpleTokenizer
      [] name = "html"      -> HtmlTokenizer
      [] name = "htmlvalue" -> HtmlValueTokenizer
      [] name = "group"     -> GroupTokenizer
      [] name = "deferred"  -> DeferredTokenizer
      [] name = "overlap"   -> OverlapTokenizer
      [] name = "quote"     -> QuoteTokenizer
      [] name = "missing"   -> MissingTokenizer
      [] name = "shadow"    -> ShadowTokenizer

\* the characters each machine's inputs are made of
AlphabetOf(name) ==
    CASE name = "readme"    -> {"a", "[", "]"}
      [] name = "improved"  -> {"a", "[", "]", "\\"}
      [] name = "simple"    -> {"a", "[", "]"}
      [] name = "html"      -> {"<", ">", "b", "&", ";"}
      [] name = "htmlvalue" -> {"'", "\"", "&", ";", "b"}
      [] name = "group"     -> {"(", ")", "a"}
      [] name = "deferred"  -> {"x", "y", "r"}
      [] name = "overlap"   -> {"a", "q", " ", "1"}
      [] name = "quote"     -> {"'", "\"", "a", "1"}
      [] name = "missing"   -> {"a", "q", "1", "b"}
      [] name = "shadow"    -> {"a", "b"}

Inputs(chars) == UNION {[1..n -> chars] : n \in 0..MaxLen}

\* ------------------------------------------------------------ specification
\* a run as process() creates it: its own Context and its own stream
NewRun(sm, input) ==
    [context     |-> Context(sm.defaultState),
     inputStream |-> streamify(input),
     reads       |-> 0,
     log         |-> <<>>,
     outputs     |-> <<>>]

\* the second run before process() was called a second time
IdleRun ==
    [context     |-> Context(Undefined),
     inputStream |-> streamify(<<>>),
     reads       |-> 0,
     log         |-> <<>>,
     outputs     |-> <<>>]

\* The builders of the machines above are not kept: the machine is given.
Init ==
    /\ \E name \in MachineNames :
          /\ machine = MachineOf(name)
          /\ alphabet = AlphabetOf(name)
    /\ pc = "built"
    /\ context = Context(Undefined)
    /\ inputStream = streamify(<<>>)
    /\ reads = 0
    /\ log = <<>>
    /\ outputs = <<>>
    /\ builder = NewBuilder
    /\ history = <<>>
    /\ other = IdleRun
    /\ handlers = NoHandlers

\* process(input): a new Context in the default state, the input made a stream
Process ==
    /\ pc = "built"
    /\ \E input \in Inputs(alphabet) :
          inputStream' = streamify(input)
    /\ context' = Context(machine.defaultState)
    /\ pc' = "running"
    /\ UNCHANGED <<machine, alphabet, reads, log, outputs, builder, history, other, handlers>>

\* one call of next() on the run's output stream
Next_ ==
    /\ pc = "running"
    /\ Len(outputs) < MaxPulls
    /\ LET run == next(machine, [context     |-> context,
                                 inputStream |-> inputStream,
                                 reads       |-> reads,
                                 log         |-> log,
                                 pull        |-> Len(outputs) + 1,
                                 out         |-> EndOfSequence])
       IN /\ context' = run.context
          /\ inputStream' = run.inputStream
          /\ reads' = run.reads
          /\ log' = run.log
          /\ outputs' = Append(outputs, run.out)
    /\ UNCHANGED <<machine, alphabet, pc, builder, history, other, handlers>>

Next == Process \/ Next_

Spec == Init /\ [][Next]_vars

\* a call of next() can be made: the run exists and the bound on calls is not met
PullPossible == pc = "running" /\ Len(outputs) < MaxPulls

\* A consumer that keeps pulling: weak fairness of Next_. next() is synchronous
\* and total (every call returns or throws, and is recorded in outputs), so
\* Next_ is enabled exactly when PullPossible holds and a step is a Next_ step
\* exactly when it lengthens outputs; the fairness condition is written with
\* these two in place of ENABLED <<Next_>>_vars and <<Next_>>_vars.
KeepsPulling ==
    \/ []<>(~PullPossible)
    \/ []<><<Len(outputs') = Len(outputs) + 1>>_vars

SpecPulling == Init /\ [][Next]_vars /\ WF_vars(Process) /\ KeepsPulling

\* ------------------------------------------------- two runs of one machine
InputsTwo(chars) == UNION {[1..n -> chars] : n \in 0..MaxLenTwo}

\* one inputPosition shared by every stream: a pull on one moves them all
StreamBeside_shared(own, pulled) == pulled

\* the stream of a run after a pull made on another run's stream: each
\* streamify() call has its own inputPosition, so it is what it was
StreamBeside(own, pulled) == own

\* process(input) called twice with equal inputs
ProcessTwice ==
    /\ pc = "built"
    /\ \E input \in InputsTwo(alphabet) :
          /\ inputStream' = streamify(input)
          /\ other' = NewRun(machine, input)
    /\ context' = Context(machine.defaultState)
    /\ pc' = "running"
    /\ UNCHANGED <<machine, alphabet, reads, log, outputs, builder, history, handlers>>

\* one call of next() on the first run
PullFirst ==
    /\ pc = "running"
    /\ Len(outputs) < MaxPullsTwo
    /\ LET run == next(machine, [context     |-> context,
                                 inputStream |-> inputStream,
                                 reads       |-> reads,
                                 log         |-> log,
                                 pull        |-> Len(outputs) + 1,
                                 out         |-> EndOfSequence])
       IN /\ context' = run.context
          /\ inputStream' = run.inputStream
          /\ reads' = run.reads
          /\ log' = run.log
          /\ outputs' = Append(outputs, run.out)
          /\ other' = [other EXCEPT
                          !.inputStream = StreamBeside(@, run.inputStream)]
    /\ UNCHANGED <<machine, alphabet, pc, builder, history, handlers>>

\* one call of next() on the second run
PullOther ==
    /\ pc = "running"
    /\ Len(other.outputs) < MaxPullsTwo
    /\ LET run == next(machine, [context     |-> other.context,
                                 inputStream |-> other.inputStream,
                                 reads       |-> other.reads,
                                 log         |-> other.log,
                                 pull        |-> Len(other.outputs) + 1,
                                 out         |-> EndOfSequence])
       IN /\ other' = [context     |-> run.context,
                       inputStream |-> run.inputStream,
                       reads       |-> run.reads,
                       log         |-> run.log,
                       outputs     |-> Append(other.outputs, run.out)]
          /\ inputStream' = StreamBeside(inputStream, run.inputStream)
    /\ UNCHANGED <<machine, alphabet, pc, context, reads, log, outputs, builder, history, handlers>>

NextTwo == ProcessTwice \/ PullFirst \/ PullOther

SpecTwo == Init /\ [][NextTwo]_vars

\* ------------------------------------------ a builder followed call by call
\* before build() there is no StateMachine
NoMachine == [defaultState |-> Undefined, states |-> <<>>]

\* the calls made on the followed builder: two state names, one of them the
\* empty string, two rules, two fallbacks, two end-of-input lists
BuilderCalls ==
    {S(""), S("A"),
     On(Lit("a"), <<emit("x"), state("A")>>), On(Lit("a"), <<accept>>),
     Else(<<accept>>), Else(<<emit("e")>>),
     OnEnd(<<emit("end")>>), OnEnd(<<accept, emit("last")>>)}

\* the inputs given to the machine of the followed builder
BuiltInputs == {<<>>, <<"a">>}

\* the builder calls made so far, build() not counted
CallsMade == Cardinality({i \in 1..Len(history) : history[i].m # "build"})

InitBuilder ==
    /\ machine = NoMachine
    /\ alphabet = {"a"}
    /\ pc = "building"
    /\ context = Context(Undefined)
    /\ inputStream = streamify(<<>>)
    /\ reads = 0
    /\ log = <<>>
    /\ outputs = <<>>
    /\ builder = NewBuilder
    /\ history = <<>>
    /\ other = IdleRun
    /\ handlers = NoHandlers

\* .state / .on / .onEnd / .else on the builder, before or after build(). A
\* rule call before any .state() throws and is left out. build() hands
\* this.states itself to the StateMachine, which keeps that object: what the
\* call changes in the builder's table is changed in the machine's.
BuilderCall ==
    /\ CallsMade < MaxCalls
    /\ \E c \in BuilderCalls :
          /\ c.m = "state" \/ builder.currentState # Undefined
          /\ builder' = ApplyCall(builder, c)
          /\ history' = Append(history, c)
    /\ machine' = IF pc = "building" THEN machine
                  ELSE [machine EXCEPT !.states = builder'.states]
    /\ UNCHANGED <<alphabet, pc, context, inputStream, reads, log, outputs, other, handlers>>

\* .build()
BuildMachine ==
    /\ pc = "building"
    /\ machine' = Builder_build(builder)
    /\ history' = Append(history, Build)
    /\ pc' = "built"
    /\ UNCHANGED <<alphabet, context, inputStream, reads, log, outputs, builder, other, handlers>>

\* process(input) on the machine built
ProcessBuilt ==
    /\ pc = "built"
    /\ \E input \in BuiltInputs :
          inputStream' = streamify(input)
    /\ context' = Context(machine.defaultState)
    /\ pc' = "running"
    /\ UNCHANGED <<machine, alphabet, reads, log, outputs, builder, history, other, handlers>>

\* one call of next() on that run
PullBuilt ==
    /\ Len(outputs) < MaxBuiltPulls
    /\ Next_

NextBuilder == BuilderCall \/ BuildMachine \/ ProcessBuilt \/ PullBuilt

SpecBuilder == InitBuilder /\ [][NextBuilder]_vars

\* ------------------------------------------- the Readme's tokenizer example
ReadmeAlphabet == {"a", "b", "c", "[", "]"}

InitReadme ==
    /\ machine = ReadmeTokenizer
    /\ alphabet = ReadmeAlphabet
    /\ pc = "built"
    /\ context = Context(Undefined)
    /\ inputStream = streamify(<<>>)
    /\ reads = 0
    /\ log = <<>>
    /\ outputs = <<>>
    /\ builder = NewBuilder
    /\ history = <<>>
    /\ other = IdleRun
    /\ handlers = NoHandlers

\* tokenizer.process(input)
ProcessReadme ==
    /\ pc = "built"
    /\ \E input \in UNION {[1..n -> alphabet] : n \in 0..MaxLenReadme} :
          inputStream' = streamify(input)
    /\ context' = Context(machine.defaultState)
    /\ pc' = "running"
    /\ UNCHANGED <<machine, alphabet, reads, log, outputs, builder, history, other, handlers>>

NextReadme == ProcessReadme \/ Next_

SpecReadme == InitReadme /\ [][NextReadme]_vars

\* ------------------------------------------ the Readme's improved tokenizer
ImprovedAlphabet == {"a", "[", "]", "\\"}

\* the Readme's input for the escaped bracket: a\[b]c
EscapedInput == <<"a", "\\", "[", "b", "]", "c">>

InitImproved ==
    /\ machine = ImprovedTokenizer
    /\ alphabet = ImprovedAlphabet
    /\ pc = "built"
    /\ context = Context(Undefined)
    /\ inputStream = streamify(<<>>)
    /\ reads = 0
    /\ log = <<>>
    /\ outputs = <<>>
    /\ builder = NewBuilder
    /\ history = <<>>
    /\ other = IdleRun
    /\ handlers = NoHandlers

\* tokenizer.process(input)
ProcessImproved ==
    /\ pc = "built"
    /\ \E input \in {EscapedInput} \cup UNION {[1..n -> alphabet] : n \in 0..MaxLenImproved} :
          inputStream' = streamify(input)
    /\ context' = Context(machine.defaultState)
    /\ pc' = "running"
    /\ UNCHANGED <<machine, alphabet, reads, log, outputs, builder, history, other, handlers>>

NextImproved == ProcessImproved \/ Next_

SpecImproved == InitImproved /\ [][NextImproved]_vars

\* ------------------------------------------- a tokenizer with a TokenEmitter
\* const tokens = new TokenEmitter().emitter(): words closed by a dot, and
\* what is left at the end of the input
EmitterTokenizer == Tokenizer(<<
    S("s"),
        On(Lit("."), <<emitter("word")>>),
        OnEnd(<<emitter("tail")>>),
        Else(<<accept>>) >>)

EmitterAlphabet == {"a", "b", "."}
EmitterTypes == {"word", "tail"}
\* the evaluator lists given to on(): one, and two whose order matters
EvaluatorLists == {<<"rest">>, <<"reverse", "rest">>}

InitEmitter ==
    /\ machine = EmitterTokenizer
    /\ alphabet = EmitterAlphabet
    /\ pc = "built"
    /\ context = Context(Undefined)
    /\ inputStream = streamify(<<>>)
    /\ reads = 0
    /\ log = <<>>
    /\ outputs = <<>>
    /\ builder = NewBuilder
    /\ history = <<>>
    /\ other = IdleRun
    /\ handlers = NoHandlers

\* tokenEmitter.on(type, ...evaluators), at any time: the actions read
\* this.handlers when they run
Register ==
    /\ Len(history) < MaxRegistrations
    /\ \E type \in EmitterTypes, evaluators \in EvaluatorLists :
          /\ handlers' = TokenEmitter_on(handlers, type, evaluators)
          /\ history' = Append(history, [m |-> "on", type |-> type,
                                         evaluators |-> evaluators])
    /\ UNCHANGED <<machine, alphabet, pc, context, inputStream, reads, log,
                   outputs, builder, other>>

\* tokenizer.process(input)
ProcessEmitter ==
    /\ pc = "built"
    /\ \E input \in UNION {[1..n -> alphabet] : n \in 0..MaxLenEmitter} :
          inputStream' = streamify(input)
    /\ context' = Context(machine.defaultState)
    /\ pc' = "running"
    /\ UNCHANGED <<machine, alphabet, reads, log, outputs, builder, history, other, handlers>>

NextEmitter == Register \/ ProcessEmitter \/ Next_

SpecEmitter == InitEmitter /\ [][NextEmitter]_vars

\* ------------------------------------------------------------------ claims
\* the action list changes state and later calls: one call, no ret
TransitionThenCall(actions) ==
    /\ Cardinality({j \in 1..Len(actions) : actions[j].op \in {"call", "ret"}}) = 1
    /\ \E i, j \in 1..Len(actions) :
          i < j /\ actions[i].op = "state" /\ actions[j].op = "call"

\* C1: a transition takes effect only at the next loop iteration: in a rule
\* whose actions are transition(S) and later call(T), the call pushes the state
\* name that was active when the rule was matched, not S.
C1_LaterActionSeesOldState ==
    \A k \in 1..Len(log) :
        (TransitionThenCall(log[k].actions) /\ log[k].err = NoError)
            => log[k].post.callstack = Append(log[k].mid.callstack, log[k].state)

\* C2: on an empty input the pulls return exactly the tokens the initial state's
\* end-of-input actions queued, all of them and in queue order, and the
\* end-of-sequence signal from then on.
C2_EmptyInputYieldsEndTokens ==
    (pc = "running" /\ inputStream.iterable = <<>> /\ Len(log) >= 1
        /\ log[1].err = NoError)
    => \A i \in 1..Len(outputs) :
          outputs[i] = IF i <= Len(log[1].post.tokens)
                       THEN Returned(log[1].post.tokens[i])
                       ELSE EndOfSequence

\* C3: the end-of-input actions of the state active when the source is
\* exhausted run exactly once in a run that reaches the end-of-sequence signal
\* (also on an empty input), not before the exhaustion and never again after;
\* the exhaustion is answered by the end-of-input list alone, never by a rule
\* or the fallback. (An execution cut short by a fatal condition ends the run
\* and is not counted.)
C3_EndRuleOnce ==
    /\ \A k \in 1..Len(log) :
          /\ (log[k].item = Undefined) <=> (log[k].list = "end")
          /\ log[k].list = "end" =>
                /\ log[k].actions = machine.states[log[k].state].endActions
                /\ log[k].state = IF k = 1 THEN machine.defaultState
                                  ELSE log[k - 1].post.state
    /\ Cardinality({k \in 1..Len(log) : log[k].list = "end" /\ log[k].err = NoError})
          = IF context.finished THEN 1 ELSE 0

\* a finished run on an empty input that was pulled again, twice
C3_Witness ==
    /\ context.finished
    /\ inputStream.iterable = <<>>
    /\ Len(outputs) >= 3

\* C4: once the run is marked finished, a pull returns the end-of-sequence
\* signal and changes nothing: no input is read, the position stays, no action
\* runs, and state, buffer, queue and stacks keep their values.
C4_FinishedPullsAreNoOps ==
    [][(context.finished /\ outputs' # outputs)
          => /\ outputs' = Append(outputs, EndOfSequence)
             /\ context' = context
             /\ inputStream' = inputStream
             /\ reads' = reads
             /\ log' = log]_vars

\* a pull made on a finished run whose queue still holds a token
C4_Witness ==
    /\ context.finished
    /\ Len(log) >= 1
    /\ log[Len(log)].pull < Len(outputs)
    /\ outputs[Len(outputs)] = EndOfSequence
    /\ Len(context.tokens) > 0

\* what a matcher answers for the item of a context, by its kind
Holds(m, ctx) ==
    CASE m.kind = "equals" -> ctx.currentItem = m.arg
      [] m.kind = "match"  -> RegExpMatch(m.arg, ctx.currentItem)
      [] OTHER             -> /\ ctx.hasCharstack
                              /\ Len(ctx.charstack) > 0
                              /\ ctx.currentItem = ctx.charstack[Len(ctx.charstack)]

\* the rules of the event's state, and those among them that match its item
RulesOf(e) == machine.states[e.state].matchers
MatchingRules(e) == {j \in 1..Len(RulesOf(e)) : Holds(RulesOf(e)[j].matcher, e.pre)}

\* some pull was answered by the TypeError of an undeclared active state
UndeclaredStateMet ==
    \E i \in 1..Len(outputs) : outputs[i].err.message = "state is undefined"

\* C5: for every input item the rules of the active state are scanned in
\* declaration order and exactly one action list executes, that of the
\* earliest-declared rule whose matcher is true; a later-declared rule that
\* matches the same item never runs for it.
C5_FirstMatchWins ==
    /\ \A k \in 1..Len(log) : log[k].position = k - 1
    /\ ~UndeclaredStateMet => Len(log) = reads
    /\ \A k \in 1..Len(log) :
          log[k].list # "end" =>
             LET hits == MatchingRules(log[k])
             IN IF hits = {}
                THEN log[k].list = "else" /\ log[k].index = 0
                ELSE /\ log[k].list = "rule"
                     /\ log[k].index \in hits
                     /\ \A h \in hits : log[k].index <= h
                     /\ log[k].actions = RulesOf(log[k])[log[k].index].actions

\* an item that three rules of its state match, answered and followed by others
C5_Witness ==
    \E k \in 1..Len(log) :
        /\ log[k].list = "rule"
        /\ Cardinality(MatchingRules(log[k])) >= 3
        /\ log[k].err = NoError
        /\ k < Len(log)

\* C6: when no rule of the active state matches the item, the state's fallback
\* list executes and only it; when that state declared no fallback, the item is
\* consumed with the state, buffer, queue and stacks unchanged, and no error.
C6_FallbackOrSilentAdvance ==
    \A k \in 1..Len(log) :
        /\ (log[k].list # "end" /\ MatchingRules(log[k]) = {}) => log[k].list = "else"
        /\ log[k].list = "else" =>
              /\ MatchingRules(log[k]) = {}
              /\ log[k].actions = machine.states[log[k].state].defaultActions
              /\ log[k].mid = log[k].pre
              /\ log[k].actions = <<>> =>
                    /\ log[k].post = log[k].pre
                    /\ log[k].err = NoError
                    /\ \A i \in 1..Len(outputs) :
                          outputs[i].kind = "throw" => i # log[k].pull \/ k < Len(log)

\* an item passed over in a state without fallback, a later one given to a
\* declared fallback
C6_Witness ==
    \E k, n \in 1..Len(log) :
        /\ k < n
        /\ log[k].list = "else" /\ log[k].actions = <<>>
        /\ log[n].list = "else" /\ log[n].actions # <<>>

\* C7: the position counter is always the number of reads made on the source
\* minus one: -1 before the first read, one more with every read, the read that
\* finds the source exhausted included, whatever number of tokens an item made.
C7_PositionCountsReads ==
    /\ context.currentPosition = reads - 1
    /\ reads >= inputStream.inputPosition
    /\ reads > inputStream.inputPosition => inputStream.inputPosition = Len(inputStream.iterable)
    /\ pc = "built" => reads = 0
    /\ \A k \in 1..Len(log) : log[k].post.currentPosition = k - 1

\* the tokens an executed list left in the queue
TokensMade(e) == Len(e.post.tokens) - Len(e.mid.tokens)

\* a finished run with an item that made no token, one that made two and the
\* exhausted read
C7_Witness ==
    /\ context.finished
    /\ reads = Len(inputStream.iterable) + 1
    /\ \E i, j, k \in 1..Len(log) :
          /\ TokensMade(log[i]) = 0
          /\ TokensMade(log[j]) >= 2
          /\ TokensMade(log[k]) = 1

\* C8: input is read only on demand and only on an empty queue: process() reads
\* nothing; a pull that finds a queued token returns it, reading no input and
\* running no action; a pull that finds the queue empty stops reading as soon
\* as one executed list has left a token in the queue.
C8_ReadsOnlyOnEmptyQueue ==
    [][/\ pc' # pc => reads' = 0 /\ log' = <<>>
       /\ (outputs' # outputs /\ Len(context.tokens) > 0) =>
              /\ outputs' = Append(outputs, Returned(Head(context.tokens)))
              /\ reads' = reads
              /\ log' = log
       /\ (outputs' # outputs /\ Len(context.tokens) = 0) =>
              /\ \A k \in (Len(log) + 1)..(Len(log') - 1) : log'[k].post.tokens = <<>>
              /\ (Len(log') > Len(log) /\ log'[Len(log')].post.tokens # <<>>)
                     => reads' - reads = Len(log') - Len(log)]_vars

\* the calls and returns of an action list
CallCount(actions) == Cardinality({j \in 1..Len(actions) : actions[j].op = "call"})
RetCount(actions) == Cardinality({j \in 1..Len(actions) : actions[j].op = "ret"})
IsCall(e) == e.err = NoError /\ CallCount(e.actions) = 1 /\ RetCount(e.actions) = 0
IsRet(e) == e.err = NoError /\ RetCount(e.actions) = 1 /\ CallCount(e.actions) = 0

\* calls less returns among the events i..m
Balance(i, m) ==
    Cardinality({k \in i..m : IsCall(log[k])}) - Cardinality({k \in i..m : IsRet(log[k])})

\* event j is the return of the call of event i
Matching(i, j) ==
    /\ i < j
    /\ IsCall(log[i])
    /\ IsRet(log[j])
    /\ Balance(i, j) = 0
    /\ \A m \in i..(j - 1) : Balance(i, m) > 0

\* a matching pair of a nesting two deep: made inside a call, or around one
Nested(i, j) ==
    /\ Matching(i, j)
    /\ \/ Balance(1, i - 1) >= 1
       \/ \E m \in (i + 1)..(j - 1) : IsCall(log[m])

\* C9: in a nesting of calls at least two deep where each called state leaves
\* by return, the state active after a return is the state that issued the
\* matching call, and the call stack is what it was before that call.
C9_CallReturnSymmetry ==
    (\A k \in 1..Len(log) : CallCount(log[k].actions) + RetCount(log[k].actions) <= 1)
    => \A i, j \in 1..Len(log) :
          Nested(i, j) =>
             /\ log[j].post.state = log[i].state
             /\ log[j].post.callstack = log[i].mid.callstack

\* the pushes of an action list
PushCount(actions) == Cardinality({j \in 1..Len(actions) : actions[j].op = "push"})

\* the event's item was given to the rule whose matcher is pop
PopSelected(e) == e.index > 0 /\ RulesOf(e)[e.index].matcher = pop

\* a pop matcher was evaluated for the event's item and answered false
PopRefused(e) ==
    \E j \in 1..(IF e.index > 0 THEN e.index - 1 ELSE Len(RulesOf(e))) :
        RulesOf(e)[j].matcher = pop

\* C10: the pop matcher is true only on a non-empty value stack whose top, the
\* latest value pushed and not yet popped, is the current item, and then removes
\* that one entry; when it is false, or not evaluated, the stack is unchanged
\* (also when empty or never created). push appends the current item.
C10_PopDiscipline ==
    \A k \in 1..Len(log) :
        log[k].list # "end" =>
           LET e == log[k]
               n == Len(e.pre.charstack)
           IN /\ PopSelected(e) =>
                    /\ e.pre.hasCharstack /\ e.mid.hasCharstack
                    /\ n > 0
                    /\ e.item = e.pre.charstack[n]
                    /\ e.mid.charstack = SubSeq(e.pre.charstack, 1, n - 1)
              /\ ~PopSelected(e) => e.mid = e.pre
              /\ e.err = NoError =>
                    e.post.charstack = e.mid.charstack \o [j \in 1..PushCount(e.actions) |-> e.item]

\* pop refused before any push and on a top that differs, then taken at depth two
C10_Witness ==
    \E i, j, k \in 1..Len(log) :
        /\ PopRefused(log[i]) /\ ~log[i].pre.hasCharstack
        /\ PopRefused(log[j]) /\ Len(log[j].pre.charstack) > 0
        /\ PopSelected(log[k]) /\ Len(log[k].pre.charstack) >= 2 /\ j < k

\* the first action of the list that throws whenever it runs: 0 when none
FirstThrowing(actions) ==
    LET T == {j \in 1..Len(actions) : actions[j].op \notin {"accept", "state", "emit", "push", "call", "ret", "emitter"}}
    IN IF T = {} THEN 0 ELSE CHOOSE j \in T : \A h \in T : j <= h

\* no pull before the given one has thrown
NoThrowBefore(pull) == \A i \in 1..(pull - 1) : outputs[i].kind # "throw"

\* the end-of-input list of the event, in a run that has not failed before,
\* runs into error(message) before any return
AbortsAtEnd(e) ==
    /\ e.list = "end"
    /\ NoThrowBefore(e.pull)
    /\ FirstThrowing(e.actions) > 0
    /\ e.actions[FirstThrowing(e.actions)].op = "error"
    /\ \A j \in 1..FirstThrowing(e.actions) : e.actions[j].op # "ret"

\* C11: when error(message) runs from an end-of-input list on an input of n
\* items, in a run that has not failed before, the pull throws an Error that carries the message, the position n and
\* undefined, the end-of-input signal, as the item.
C11_AbortAtEndReportsLength ==
    \A k \in 1..Len(log) :
        AbortsAtEnd(log[k]) =>
            /\ log[k].err = [name     |-> "Error",
                             message  |-> log[k].actions[FirstThrowing(log[k].actions)].arg,
                             position |-> Len(inputStream.iterable),
                             item     |-> Undefined]
            /\ outputs[log[k].pull] = Thrown(log[k].err)

\* "Unclosed color tag" raised at position 3 on an input of three items
C11_Witness ==
    /\ Len(inputStream.iterable) = 3
    /\ Len(outputs) >= 1
    /\ outputs[Len(outputs)] = Thrown([name |-> "Error", message |-> "Unclosed color tag",
                                       position |-> 3, item |-> Undefined])
    /\ AbortsAtEnd(log[Len(log)])

\* the executed list of the event was cut short by error(message)
AbortedBy(e) ==
    /\ e.err # NoError
    /\ FirstThrowing(e.actions) > 0
    /\ e.actions[FirstThrowing(e.actions)].op = "error"
    /\ e.err.name = "Error"
    /\ e.err.message = e.actions[FirstThrowing(e.actions)].arg

\* some executed list of the run was cut short by error(message)
AbortedRun == \E k \in 1..Len(log) : AbortedBy(log[k])

\* C12: an error(message) ends the run and discards its queue and buffer: no
\* pull made after the pull in which it ran returns a token, executes an action
\* list or reads input.
C12_AbortEndsRun ==
    [][(AbortedRun /\ outputs' # outputs)
          => /\ outputs'[Len(outputs')].kind # "token"
             /\ log' = log
             /\ reads' = reads]_vars

\* the first ret of the list, reached with the state and the callstack that the
\* matchers left: only accept, emit and push run before it (0 when there is none)
FirstPlainRet(actions) ==
    LET R == {j \in 1..Len(actions) :
                 /\ actions[j].op = "ret"
                 /\ \A h \in 1..(j - 1) : actions[h].op \in {"accept", "emit", "push"}}
    IN IF R = {} THEN 0 ELSE CHOOSE j \in R : TRUE

\* the event's list reaches a ret on a callstack that is empty or missing
ReturnsOnEmpty(e) == FirstPlainRet(e.actions) > 0 /\ e.mid.callstack = <<>>

\* C13: ret executed on a callstack that is empty or was never created throws
\* an Error and changes no state: the active state name and the callstack are
\* what they were before the failing action.
C13_ReturnOnEmptyStackFails ==
    \A k \in 1..Len(log) :
        ReturnsOnEmpty(log[k]) =>
            /\ log[k].err = [name |-> "Error",
                             message |-> "Can't return from state; callstack empty",
                             position |-> -1, item |-> log[k].mid.state]
            /\ outputs[log[k].pull] = Thrown(log[k].err)
            /\ log[k].post.state = log[k].mid.state
            /\ log[k].post.callstack = log[k].mid.callstack
            /\ log[k].post.hasCallstack = log[k].mid.hasCallstack

\* a ret before any call, and a later ret on a callstack that calls and
\* returns have emptied
C13_Witness ==
    \E i, j \in 1..Len(log) :
        /\ ReturnsOnEmpty(log[i]) /\ ~log[i].mid.hasCallstack
        /\ ReturnsOnEmpty(log[j]) /\ log[j].mid.hasCallstack

\* the state-changing actions of a list, and the name the last of them gives
StateOps(actions) == {j \in 1..Len(actions) : actions[j].op \in {"state", "call"}}
LastTarget(actions) == actions[CHOOSE j \in StateOps(actions) : \A h \in StateOps(actions) : h <= j].arg
EmitCount(actions) == Cardinality({j \in 1..Len(actions) : actions[j].op = "emit"})

\* the list executed for an item holds nothing that throws and leaves, by
\* state(name) or call(name), for a state the machine does not declare
NamesUndeclared(e) ==
    /\ e.list # "end"
    /\ FirstThrowing(e.actions) = 0
    /\ RetCount(e.actions) = 0
    /\ StateOps(e.actions) # {}
    /\ LastTarget(e.actions) \notin DOMAIN machine.states

\* the TypeError of a loop iteration that finds no state under the name
UndeclaredState(name) ==
    Thrown([name |-> "TypeError", message |-> "state is undefined",
            position |-> -1, item |-> name])

\* C14: state(name) or call(name) for a name the machine does not declare does
\* not fail when it executes: the rest of the list runs and the tokens it queued
\* are returned by the pulls; the run throws only in the next loop iteration,
\* after one more read of the source (an item or the end signal) and one more
\* step of the position.
C14_UndeclaredStateFailsLazily ==
    \A k \in 1..Len(log) :
        NamesUndeclared(log[k]) =>
            LET e    == log[k]
                toks == e.post.tokens
                q    == e.pull + Len(toks)
            IN /\ e.err = NoError
               /\ e.post.state = LastTarget(e.actions)
               /\ TokensMade(e) = EmitCount(e.actions)
               /\ k = Len(log)
               /\ \A i \in 1..Len(toks) :
                     e.pull + i - 1 <= Len(outputs) => outputs[e.pull + i - 1] = Returned(toks[i])
               /\ Len(outputs) < q => reads = k
               /\ Len(outputs) >= q =>
                     /\ outputs[q] = UndeclaredState(e.post.state)
                     /\ reads = k + (Len(outputs) - q + 1)
                     /\ context.currentPosition = reads - 1

\* two tokens queued after a transition to an undeclared state were returned,
\* and the pull after them failed on reading the end signal
C14_Witness ==
    /\ Len(log) >= 1
    /\ NamesUndeclared(log[Len(log)])
    /\ TokensMade(log[Len(log)]) = 2
    /\ Len(outputs) = log[Len(log)].pull + 2
    /\ outputs[Len(outputs)] = UndeclaredState("ghost")
    /\ reads = Len(inputStream.iterable) + 1

\* the pulls both runs have made
CommonPulls == 1..(IF Len(outputs) <= Len(other.outputs) THEN Len(outputs) ELSE Len(other.outputs))

BuildAt(h) == CHOOSE i \in 1..Len(h) : h[i].m = "build"
BeforeBuild(h) == SubSeq(h, 1, BuildAt(h) - 1)

\* the StateMachine as build() returned it
AsBuilt == Builder_build(Chain(NewBuilder, BeforeBuild(history)))

\* C16: build() freezes the state table: builder calls made after build()
\* change nothing in the rules, fallback or end rule of the machine already
\* returned.
C16_BuildFreezesTable ==
    pc # "building" => machine = AsBuilt

\* the state open when call i of h is made: the name of the last .state()
\* before it
OpenAt(h, i) ==
    LET P == {j \in 1..(i - 1) : h[j].m = "state"}
    IN IF P = {} THEN Undefined ELSE h[CHOOSE j \in P : \A k \in P : k <= j].name

\* the names declared by the calls of h
Declared(h) == {h[i].name : i \in {j \in 1..Len(h) : h[j].m = "state"}}

\* the rules the first n calls of h added while state s was open, in call order
RECURSIVE DeclaredRules(_, _, _)
DeclaredRules(h, s, n) ==
    IF n = 0 THEN <<>>
    ELSE IF h[n].m = "on" /\ OpenAt(h, n) = s
    THEN Append(DeclaredRules(h, s, n - 1),
                [matcher |-> matcherWrapper(h[n].matcher), actions |-> h[n].actions])
    ELSE DeclaredRules(h, s, n - 1)

\* C17: after any sequence of builder calls the states are the names declared,
\* and the rule list of each state is the sequence of the .on() calls made
\* while it was open, in call order, calls made after the state was reopened
\* included: reopening neither clears nor reorders.
C17_RulesInDeclarationOrder ==
    /\ DOMAIN builder.states = Declared(history)
    /\ \A s \in DOMAIN builder.states :
          builder.states[s].matchers = DeclaredRules(history, s, Len(history))

\* a state opened twice, with a rule added before and a different one after
\* the second .state()
C17_Witness ==
    \E i, j, k, n \in 1..Len(history) :
        /\ i < j /\ j < k /\ k < n
        /\ history[i].m = "state" /\ history[k] = history[i]
        /\ history[j].m = "on" /\ history[n].m = "on" /\ history[j] # history[n]
        /\ OpenAt(history, j) = history[i].name
        /\ OpenAt(history, n) = history[i].name

\* the name given to the first .state() of h
FirstDeclared(h) ==
    h[CHOOSE i \in 1..Len(h) : h[i].m = "state" /\ \A j \in 1..(i - 1) : h[j].m # "state"].name

\* C18: whatever the names, the initial state is the name given to the first
\* .state() call: later declarations and reopenings never change it, and every
\* run starts in it.
C18_FirstDeclaredIsInitial ==
    /\ Declared(history) # {} => builder.defaultState = FirstDeclared(history)
    /\ (pc # "building" /\ Declared(BeforeBuild(history)) # {})
          => machine.defaultState = FirstDeclared(history)
    /\ (pc = "running" /\ Declared(BeforeBuild(history)) # {} /\ outputs = <<>>)
          => context.state = FirstDeclared(history)

\* the list given by the last call of the kind made while s was open, <<>>
\* when there is none
LastSet(h, s, kind) ==
    LET P == {i \in 1..Len(h) : h[i].m = kind /\ OpenAt(h, i) = s}
    IN IF P = {} THEN <<>> ELSE h[CHOOSE i \in P : \A k \in P : k <= i].actions

\* C19: .else and .onEnd replace, never append: each state's fallback and
\* end-of-input list are those of the last such call made while it was open,
\* the call changes nothing else in the table, and a pull executes that last
\* list only.
C19_LastFallbackWins ==
    [][/\ \A s \in DOMAIN builder'.states :
             /\ builder'.states[s].defaultActions = LastSet(history', s, "else")
             /\ builder'.states[s].endActions = LastSet(history', s, "onEnd")
       /\ (Len(history') > Len(history) /\ history'[Len(history')].m = "else")
             => builder'.states = [builder.states EXCEPT
                    ![builder.currentState].defaultActions = history'[Len(history')].actions]
       /\ (Len(history') > Len(history) /\ history'[Len(history')].m = "onEnd")
             => builder'.states = [builder.states EXCEPT
                    ![builder.currentState].endActions = history'[Len(history')].actions]
       /\ \A k \in (Len(log) + 1)..Len(log') :
             /\ log'[k].list = "else" => log'[k].actions = LastSet(history, log'[k].state, "else")
             /\ log'[k].list = "end" => log'[k].actions = LastSet(history, log'[k].state, "onEnd")]_vars

\* a state given two different fallbacks, a rule and an end-of-input list, and
\* a pull that executed the second fallback
C19_Witness ==
    /\ \E i, j \in 1..Len(history) :
          /\ i < j
          /\ history[i].m = "else" /\ history[j].m = "else"
          /\ history[i] # history[j]
          /\ OpenAt(history, i) = OpenAt(history, j)
          /\ \E k \in 1..Len(log) :
                /\ log[k].list = "else"
                /\ log[k].state = OpenAt(history, i)
                /\ log[k].actions = history[j].actions

\* brackets balanced and not nested: "[" only outside a tag, "]" only inside,
\* and the input ends outside
RECURSIVE BalancedFrom(_, _)
BalancedFrom(rest, inside) ==
    IF rest = <<>> THEN ~inside
    ELSE IF Head(rest) = "[" THEN ~inside /\ BalancedFrom(Tail(rest), TRUE)
    ELSE IF Head(rest) = "]" THEN inside /\ BalancedFrom(Tail(rest), FALSE)
    ELSE BalancedFrom(Tail(rest), inside)

\* the substrings outside and inside the brackets, in input order, as text
\* and color tokens
RECURSIVE Substrings(_, _, _)
Substrings(rest, type, value) ==
    IF rest = <<>> THEN <<[type |-> type, value |-> value]>>
    ELSE IF Head(rest) \in {"[", "]"}
    THEN <<[type |-> type, value |-> value]>>
         \o Substrings(Tail(rest), IF type = "text" THEN "color" ELSE "text", <<>>)
    ELSE Substrings(Tail(rest), type, Append(value, Head(rest)))

\* C20: for the text/color tokenizer of the Readme, an input whose brackets are
\* balanced and not nested gives tokens alternating text, color, text, ...,
\* first and last a text token, whose values are the substrings outside and
\* inside the brackets in input order, and then the end-of-sequence signal;
\* "a[b]c" gives {text,"a"}, {color,"b"}, {text,"c"}.
C20_ReadmeTokens ==
    (pc = "running" /\ BalancedFrom(inputStream.iterable, FALSE)) =>
        LET expected == Substrings(inputStream.iterable, "text", <<>>)
        IN /\ expected[1].type = "text" /\ expected[Len(expected)].type = "text"
           /\ \A i \in 1..(Len(expected) - 1) : expected[i].type # expected[i + 1].type
           /\ \A i \in 1..Len(outputs) :
                 outputs[i] = IF i <= Len(expected) THEN Returned(expected[i])
                              ELSE EndOfSequence

\* "a[b]c" pulled to the end
C20_Witness ==
    /\ inputStream.iterable = <<"a", "[", "b", "]", "c">>
    /\ outputs = <<Returned([type |-> "text", value |-> <<"a">>]),
                   Returned([type |-> "color", value |-> <<"b">>]),
                   Returned([type |-> "text", value |-> <<"c">>]),
                   EndOfSequence>>

\* the event read a backslash in the text state
BackslashInText(e) == e.state = "text" /\ e.item = "\\"

\* C21: in the improved tokenizer a backslash read in the text state is not
\* buffered, and the item that follows it is appended to the buffer, makes no
\* token and starts no color tag: the state for the item after it is text. So
\* "a\[b]c" gives the single token {text, "a[b]c"}.
C21_EscapedItemIsText ==
    /\ \A k \in 1..Len(log) :
          BackslashInText(log[k]) =>
             /\ log[k].err = NoError
             /\ log[k].post.buffer = log[k].pre.buffer
             /\ log[k].post.tokens = log[k].pre.tokens
             /\ (k < Len(log) /\ log[k + 1].item # Undefined) =>
                   /\ log[k + 1].err = NoError
                   /\ log[k + 1].pull = log[k].pull
                   /\ log[k + 1].post.buffer = Append(log[k].post.buffer, log[k + 1].item)
                   /\ log[k + 1].post.tokens = log[k].post.tokens
                   /\ log[k + 1].post.state = "text"
    /\ (pc = "running" /\ inputStream.iterable = EscapedInput) =>
          \A i \in 1..Len(outputs) :
              outputs[i] = IF i = 1
                           THEN Returned([type |-> "text",
                                          value |-> <<"a", "[", "b", "]", "c">>])
                           ELSE EndOfSequence

\* "a\[b]c" pulled to the end and once more
C21_Witness ==
    /\ inputStream.iterable = EscapedInput
    /\ Len(outputs) = 3
    /\ context.finished
    /\ \E k \in 1..(Len(log) - 1) : BackslashInText(log[k]) /\ log[k + 1].item = "["

\* the actions of the event that ran to their end: all of them, or those before
\* the one that threw
Completed(e) ==
    IF e.err = NoError THEN e.actions
    ELSE LET F == {j \in 1..Len(e.actions) :
                      e.actions[j].op \notin {"accept", "state", "emit", "push", "call"}}
         IN SubSeq(e.actions, 1, (CHOOSE j \in F : \A h \in F : j <= h) - 1)

\* what accept and emit make of a buffer: accept appends the item, emit(type)
\* makes the token {type, buffer} and empties the buffer
RECURSIVE Accumulate(_, _, _)
Accumulate(actions, item, acc) ==
    IF actions = <<>> THEN acc
    ELSE Accumulate(Tail(actions), item,
            CASE Head(actions).op = "accept" ->
                     [acc EXCEPT !.buffer = Append(@, item)]
              [] Head(actions).op = "emit" ->
                     [buffer |-> <<>>,
                      made   |-> Append(acc.made, [type  |-> Head(actions).arg,
                                                   value |-> acc.buffer])]
              [] OTHER -> acc)

\* the buffer after the first n executed lists, from the items accepted since
\* the last emit
RECURSIVE BufferAfter(_)
BufferAfter(n) ==
    IF n = 0 THEN <<>>
    ELSE Accumulate(Completed(log[n]), log[n].item,
                    [buffer |-> BufferAfter(n - 1), made |-> <<>>]).buffer

\* C22: the buffer is always the items accepted since the last emit (or the
\* start of the run), in order; emit(type) appends the one token {type, value =
\* that buffer} at the tail of the queue and empties the buffer, so the emits of
\* one action list are queued in action order.
C22_BufferAndEmit ==
    /\ context.buffer = BufferAfter(Len(log))
    /\ \A k \in 1..Len(log) :
          LET acc == Accumulate(Completed(log[k]), log[k].item,
                                [buffer |-> log[k].mid.buffer, made |-> <<>>])
          IN /\ log[k].mid.buffer = BufferAfter(k - 1)
             /\ log[k].post.buffer = acc.buffer
             /\ log[k].post.tokens = log[k].mid.tokens \o acc.made

\* a list that emitted two tokens, the first with a value of two accepted items
C22_Witness ==
    \E k \in 1..Len(log) :
        /\ TokensMade(log[k]) = 2
        /\ Len(log[k].post.tokens[1].value) = 2
        /\ log[k].post.tokens[1].type # log[k].post.tokens[2].type
        /\ log[k].post.buffer = <<>>

\* the tokens the first n executed lists enqueued, in enqueue order
RECURSIVE Enqueued(_)
Enqueued(n) ==
    IF n = 0 THEN <<>>
    ELSE Enqueued(n - 1)
         \o SubSeq(log[n].post.tokens, Len(log[n].mid.tokens) + 1, Len(log[n].post.tokens))

\* the pulls that returned the end-of-sequence signal, and the tokens returned
\* by the pulls before pull n
EndPulls == {i \in 1..Len(outputs) : outputs[i] = EndOfSequence}
RECURSIVE ReturnedBefore(_)
ReturnedBefore(n) ==
    IF n <= 1 THEN <<>>
    ELSE IF outputs[n - 1].kind = "token"
    THEN Append(ReturnedBefore(n - 1), outputs[n - 1].token)
    ELSE ReturnedBefore(n - 1)

\* C23: no token is lost or reordered: in a run in which nothing was thrown,
\* the tokens returned by the pulls before the first end-of-sequence signal are
\* all the tokens the executed lists enqueued, in enqueue order, and the queue
\* is empty whenever a pull returns the end-of-sequence signal.
C23_NoTokenLost ==
    (EndPulls # {} /\ \A i \in 1..Len(outputs) : outputs[i].kind # "throw") =>
        /\ ReturnedBefore(CHOOSE i \in EndPulls : \A j \in EndPulls : i <= j)
              = Enqueued(Len(log))
        /\ context.tokens = <<>>

\* a pop rule is declared after the rule the event's item was given to
PopShadowed(e) ==
    /\ e.index > 0
    /\ \E j \in (e.index + 1)..Len(RulesOf(e)) : RulesOf(e)[j].matcher = pop

\* C24: matching and popping are one step of the pop rule: for an item the
\* value stack loses an entry if and only if the rule whose matcher is pop is
\* the rule whose actions execute; a pop rule declared after an earlier matching
\* rule is not evaluated and the stack stays as it was.
C24_PopCoupledToRule ==
    \A k \in 1..Len(log) :
        log[k].list # "end" =>
            /\ (Len(log[k].mid.charstack) < Len(log[k].pre.charstack)) <=> PopSelected(log[k])
            /\ Len(log[k].post.charstack) >= Len(log[k].mid.charstack)
            /\ SubSeq(log[k].post.charstack, 1, Len(log[k].mid.charstack)) = log[k].mid.charstack
            /\ PopShadowed(log[k]) => log[k].mid = log[k].pre

\* an item equal to the top of the stack, given to a rule declared before the
\* pop rule, and a later item given to the pop rule
C24_Witness ==
    \E i, k \in 1..Len(log) :
        /\ i < k
        /\ PopShadowed(log[i])
        /\ Holds(pop, log[i].pre)
        /\ log[i].err = NoError
        /\ PopSelected(log[k])

\* the evaluators of the last on() call made for the type
LastRegistered(calls, type) ==
    LET I == {i \in 1..Len(calls) : calls[i].type = type}
    IN calls[CHOOSE i \in I : \A j \in I : j <= i].evaluators

\* the types on() was called for
Registered(calls) == {calls[i].type : i \in 1..Len(calls)}

\* the value a chain of evaluators makes of a buffer: e_n(...e_1(buffer))
RECURSIVE ChainValue(_, _, _)
ChainValue(evaluators, n, buffer) ==
    IF n = 0 THEN buffer
    ELSE Evaluate(evaluators[n], ChainValue(evaluators, n - 1, buffer))

\* an action list that is one emitter action acted on the buffer b and the
\* queue q, and left the token t last in the queue and the buffer empty
EmitterActed(e) ==
    /\ Len(e.actions) = 1
    /\ e.actions[1].op = "emitter"

\* C25: the handlers of a TokenEmitter are, for every type, the evaluators of
\* the last on() call made for it, and none for a type on() was never called
\* for; an emitter action for a type with registered evaluators e_1..e_n
\* enqueues a token of that type whose value is e_n(...e_1(buffer)) and empties
\* the buffer; for a type with none registered the value is the buffer itself.
C25_EmitterAppliesChain ==
    /\ [](/\ DOMAIN handlers = Registered(history)
          /\ \A t \in DOMAIN handlers : handlers[t] = LastRegistered(history, t))
    /\ [][\A k \in (Len(log) + 1)..Len(log') :
            EmitterActed(log'[k]) =>
                LET e == log'[k]
                    type == e.actions[1].arg
                    value == IF type \in Registered(history)
                             THEN LET evs == LastRegistered(history, type)
                                  IN ChainValue(evs, Len(evs), e.mid.buffer)
                             ELSE e.mid.buffer
                IN /\ e.post.tokens = Append(e.mid.tokens, [type |-> type, value |-> value])
                   /\ e.post.buffer = <<>>]_vars

\* a type registered twice with different evaluators, the second time with two
\* whose order shows in the value, and a token of that type made of a buffer of
\* two different items; and a token of a type that was never registered
C25_Witness ==
    /\ \E i, j \in 1..Len(history) :
          /\ i < j
          /\ history[i].type = "word" /\ history[j].type = "word"
          /\ history[i].evaluators = <<"rest">>
          /\ history[j].evaluators = <<"reverse", "rest">>
    /\ "tail" \notin Registered(history)
    /\ \E k, n \in 1..Len(log) :
          /\ EmitterActed(log[k]) /\ log[k].actions[1].arg = "word"
          /\ log[k].mid.buffer = <<"a", "b">>
          /\ log[k].post.tokens[Len(log[k].post.tokens)].value = <<"a">>
          /\ EmitterActed(log[n]) /\ log[n].actions[1].arg = "tail"
          /\ log[n].mid.buffer # <<>>
          /\ log[n].post.tokens[Len(log[n].post.tokens)].value = log[n].mid.buffer

\* no action of the run has thrown and no undeclared state was met
FatalFree ==
    /\ \A k \in 1..Len(log) : log[k].err = NoError
    /\ \A i \in 1..Len(outputs) : outputs[i].kind # "throw"

\* a pull has returned the end-of-sequence signal
EndReceived == \E i \in 1..Len(outputs) : outputs[i].kind = "end"

\* C26: in a run over an input of n items in which no fatal condition was
\* raised, every pull has returned one token or the end-of-sequence signal, each
\* executed action list followed one read of the source and the source was read
\* at most n+1 times in all; and a consumer that keeps pulling such a run
\* eventually receives the end-of-sequence signal.
C26_PullsTerminate ==
    /\ [](FatalFree =>
            /\ \A i \in 1..Len(outputs) :
                  \/ outputs[i].kind = "end"
                  \/ outputs[i].kind = "token" /\ outputs[i].token # NoToken
            /\ Len(log) = reads
            /\ reads <= Len(inputStream.iterable) + 1)
    /\ (pc = "running") ~> (EndReceived \/ ~FatalFree)

\* a run over the longest input that read the source n+1 times, returned
\* tokens, then the end-of-sequence signal
C26_Witness ==
    /\ FatalFree
    /\ Len(inputStream.iterable) = MaxLen
    /\ reads = MaxLen + 1
    /\ Len(outputs) >= 3
    /\ outputs[1].kind = "token"
    /\ outputs[Len(outputs) - 1].kind = "token"
    /\ outputs[Len(outputs)].kind = "end"

====
